---- MODULE Spec2Model ----
(***************************************************************************)
(* Model of nextrows-py: the schema normalisation of api/extract.py        *)
(* (_convert_schema, build_extract_payload) and the two clients of         *)
(* client.py (Nextrows, blocking; AsyncNextrows, suspend-on-I/O) with      *)
(* their four operations and their scoped use (with / async with).         *)
(*                                                                         *)
(* Two specifications:                                                     *)
(*   SpecPure  a direct call of _convert_schema or build_extract_payload   *)
(*             on an argument drawn from a bounded set of Python values;   *)
(*   Spec      one client, from construction to close, performing up to    *)
(*             MaxCalls operations against a server that answers each      *)
(*             request with any status and body, or not at all.            *)
(***************************************************************************)
EXTENDS Integers, Sequences, FiniteSets, TLC

VARIABLES
    \* ---- SpecPure: one direct call of a function of api/extract.py
    fn,         \* the function called: "_convert_schema" | "build_extract_payload" | "none"
    arg,        \* its argument (a schema source, or a request mapping)
    ret,        \* its outcome once it has run, Pending before
    \* ---- Spec: one client
    mode,       \* "sync" (Nextrows) | "async" (AsyncNextrows)
    scope,      \* "none" | "entered" | "exited": the with / async with block
    scope_exc,  \* the exception __exit__/__aexit__ was given ("" for a normal exit)
    closes,     \* number of close() calls made on the session / client object
    ncalls,     \* operations started so far
    pc,         \* "idle" | "awaiting" (the request is on the wire) | "done"
    op,         \* the operation in progress or just finished
    call_request, \* its request argument
    wire,       \* the HTTP requests sent during this call, in order
    response,   \* the response received for this call (NoResponse before it arrives)
    result      \* the outcome of the call once done

pure_vars   == <<fn, arg, ret>>
client_vars == <<mode, scope, scope_exc, closes, ncalls, pc, op, call_request, wire, response, result>>
vars        == <<fn, arg, ret, mode, scope, scope_exc, closes, ncalls, pc, op, call_request, wire,
                 response, result>>

\* ------------------------------------------------------------------ bounds
\* Operations one client performs before it is closed.
MaxCalls == 2

\* ------------------------------------------------------------ Python values
\* A Python value as far as this code can tell values apart:
\*   t    its type: "dict" (isinstance(v, dict)), "none" (None), "str", "obj"
\*   ref  its identity (id(v)); two equal dicts may be distinct objects
\*   c    its content, what == compares
\*   model_json_schema, schema   the attributes getattr() looks up on it
\* An attribute is absent, present but not callable, or a zero-argument
\* callable that returns a value or raises.
Plain == {
    [t |-> "dict", ref |-> 1, c |-> "{type: object}"],
    [t |-> "dict", ref |-> 2, c |-> "{type: array}"],
    [t |-> "none", ref |-> 0, c |-> "None"],
    [t |-> "str",  ref |-> 3, c |-> "'object'"],
    [t |-> "obj",  ref |-> 5, c |-> "Other"] }

NonePlain == [t |-> "none", ref |-> 0, c |-> "None"]

Absent      == [k |-> "absent",      ret |-> NonePlain]
NonCallable == [k |-> "noncallable", ret |-> NonePlain]
Raises      == [k |-> "raises",      ret |-> NonePlain]
Returns(p)  == [k |-> "returns",     ret |-> p]

Attr == {Absent, NonCallable, Raises} \cup {Returns(p) : p \in Plain}

\* A value without export attributes.
Lift(p) == [t |-> p.t, ref |-> p.ref, c |-> p.c,
            model_json_schema |-> Absent, schema |-> Absent]

None == Lift(NonePlain)

\* Model objects (pydantic-like classes or instances, and any other object):
\* every combination of the two attributes.
ModelObjects ==
    { [t |-> "obj", ref |-> 4, c |-> "Model", model_json_schema |-> a, schema |-> b] :
        a \in Attr, b \in Attr }

\* Mappings: plain dicts, and dict subclasses that carry export attributes.
DictAttr == {Absent, NonCallable, Raises, Returns([t |-> "dict", ref |-> 2, c |-> "{type: array}"])}

Dicts ==
    { [t |-> "dict", ref |-> 1, c |-> "{type: object}", model_json_schema |-> a, schema |-> b] :
        a \in DictAttr, b \in DictAttr }
    \cup {Lift([t |-> "dict", ref |-> 2, c |-> "{type: array}"])}

\* ExtractSchema = Union[JsonSchema, Any]
SchemaSources == Dicts \cup ModelObjects \cup {None, Lift([t |-> "str", ref |-> 3, c |-> "'object'"])}

\* ------------------------------------------------------------ _convert_schema
isinstance_dict(v) == v.t = "dict"

\* getattr(v, name, None): the attribute, None when absent.
getattr(v, name) == v[name]

\* callable(x) for the result of getattr.
callable(a) == a.k \in {"returns", "raises"}

\* The outcome of a call: a returned value or a raised error, and the export
\* capabilities invoked on the way, in order.
Return(v, calls) == [outcome |-> "return", value |-> v,    error |-> "",  calls |-> calls]
Raise(e, calls)  == [outcome |-> "raise",  value |-> None, error |-> e,   calls |-> calls]

\* Invoking a callable attribute: its result, or the error it raises, unwrapped.
Invoke(a, name) ==
    IF a.k = "raises" THEN Raise("ExportError", <<name>>)
    ELSE Return(Lift(a.ret), <<name>>)

\* Variants of _convert_schema that a slip in its code would produce; each is
\* used to show that a property below depends on the code as written.
\* (a) the capabilities are probed before the isinstance check
_convert_schema_probe_first(schema) ==
    LET model_json_schema == getattr(schema, "model_json_schema")
        legacy_schema == getattr(schema, "schema")
    IN  IF callable(model_json_schema) THEN Invoke(model_json_schema, "model_json_schema")
        ELSE IF callable(legacy_schema) THEN Invoke(legacy_schema, "schema")
        ELSE IF isinstance_dict(schema) THEN Return(schema, <<>>)
        ELSE Raise("ValueError", <<>>)

\* (b) the legacy capability is tried before the primary one
_convert_schema_legacy_first(schema) ==
    IF isinstance_dict(schema) THEN Return(schema, <<>>)
    ELSE LET legacy_schema == getattr(schema, "schema") IN
         IF callable(legacy_schema) THEN Invoke(legacy_schema, "schema")
         ELSE LET model_json_schema == getattr(schema, "model_json_schema") IN
              IF callable(model_json_schema)
              THEN Invoke(model_json_schema, "model_json_schema")
              ELSE Raise("ValueError", <<>>)

\* (c) the legacy fallback is missing
_convert_schema_no_legacy(schema) ==
    IF isinstance_dict(schema) THEN Return(schema, <<>>)
    ELSE LET model_json_schema == getattr(schema, "model_json_schema") IN
         IF callable(model_json_schema) THEN Invoke(model_json_schema, "model_json_schema")
         ELSE Raise("ValueError", <<>>)

\* (d) an attribute that exists is invoked without the callable() test, so a
\*     non-callable one fails with TypeError instead of falling through
_convert_schema_no_callable_test(schema) ==
    IF isinstance_dict(schema) THEN Return(schema, <<>>)
    ELSE LET model_json_schema == getattr(schema, "model_json_schema") IN
         IF model_json_schema.k = "noncallable" THEN Raise("TypeError", <<>>)
         ELSE IF callable(model_json_schema)
         THEN Invoke(model_json_schema, "model_json_schema")
         ELSE LET legacy_schema == getattr(schema, "schema") IN
              IF legacy_schema.k = "noncallable" THEN Raise("TypeError", <<>>)
              ELSE IF callable(legacy_schema) THEN Invoke(legacy_schema, "schema")
              ELSE Raise("ValueError", <<>>)

_convert_schema(schema) ==
    IF isinstance_dict(schema) THEN Return(schema, <<>>)
    ELSE LET model_json_schema == getattr(schema, "model_json_schema") IN
         IF callable(model_json_schema) THEN Invoke(model_json_schema, "model_json_schema")
         ELSE LET legacy_schema == getattr(schema, "schema") IN
              IF callable(legacy_schema) THEN Invoke(legacy_schema, "schema")
              ELSE Raise("ValueError", <<>>)

\* ------------------------------------------------------ build_extract_payload
\* A request is a Python dict: an identity and its items. The TypedDict
\* ExtractRequest requires type and data and allows prompt and schema; the
\* schema key may be missing, or present with any value, None included.
RequestItems ==
    LET base == { [type |-> ty, data |-> <<d>>] : ty \in {"url", "text"},
                                                   d \in {"https://example.com"} }
        prompted == base \cup { ("prompt" :> "names only") @@ b : b \in base }
    IN  prompted \cup { ("schema" :> s) @@ b : b \in prompted, s \in SchemaSources }

Requests == { [ref |-> 10, items |-> i] : i \in RequestItems }

\* has_schema without the "is not None" test.
has_schema_key_only(request) == "schema" \in DOMAIN request.items

\* "schema" in request and request["schema"] is not None
has_schema(request) ==
    /\ "schema" \in DOMAIN request.items
    /\ request.items["schema"].t # "none"

\* with_schema updating the request in place and returning it.
with_schema_in_place(request, v) ==
    [ref |-> request.ref,
     items |-> [k \in DOMAIN request.items \cup {"schema"} |->
                   IF k = "schema" THEN v ELSE request.items[k]]]

\* build_extract_payload copying the request without converting its schema.
build_extract_payload_unconverted(request) ==
    IF has_schema(request)
    THEN LET conv == _convert_schema(request.items["schema"]) IN
         IF conv.outcome = "raise" THEN conv
         ELSE Return([ref |-> request.ref + 1, items |-> request.items], conv.calls)
    ELSE Return([ref |-> request.ref + 1, items |-> request.items], <<>>)

\* {**request, "schema": v}: a new dict with the request's items, schema replaced.
with_schema(request, v) ==
    [ref |-> request.ref + 1,
     items |-> [k \in DOMAIN request.items \cup {"schema"} |->
                   IF k = "schema" THEN v ELSE request.items[k]]]

\* dict(request): a new dict with the request's items.
dict_copy(request) == [ref |-> request.ref + 1, items |-> request.items]

build_extract_payload(request) ==
    IF has_schema(request)
    THEN LET conv == _convert_schema(request.items["schema"]) IN
         IF conv.outcome = "raise" THEN conv
         ELSE Return(with_schema(request, conv.value), conv.calls)
    ELSE Return(dict_copy(request), <<>>)

\* --------------------------------------------------------------- SpecPure
Pending == [outcome |-> "pending", value |-> None, error |-> "", calls |-> <<>>]

NoClient ==
    /\ mode = "none" /\ scope = "none" /\ scope_exc = "" /\ closes = 0 /\ ncalls = 0
    /\ pc = "idle" /\ op = "none" /\ call_request = None /\ wire = <<>>
    /\ response = None /\ result = Pending

InitPure ==
    /\ \/ fn = "_convert_schema" /\ arg \in SchemaSources
       \/ fn = "build_extract_payload" /\ arg \in Requests
    /\ ret = Pending
    /\ NoClient

CallConvertSchema ==
    /\ fn = "_convert_schema"
    /\ ret = Pending
    /\ ret' = _convert_schema(arg)
    /\ UNCHANGED <<fn, arg>>
    /\ UNCHANGED client_vars

CallBuildExtractPayload ==
    /\ fn = "build_extract_payload"
    /\ ret = Pending
    /\ ret' = build_extract_payload(arg)
    /\ UNCHANGED <<fn, arg>>
    /\ UNCHANGED client_vars

NextPure == CallConvertSchema \/ CallBuildExtractPayload

SpecPure == InitPure /\ [][NextPure]_vars

\* ------------------------------------------------------------------ HTTP
\* What a server may answer. The status is that of the response the HTTP
\* library hands back to the caller.
Statuses == {200, 201, 300, 404, 503}

Bodies == {"{\"success\": true, \"data\": 1}", "{\"success\": false}", "<html>"}

NoResponse == [status |-> 0, body |-> ""]

\* response.json(): the decoded body, or a decoding error when the body is
\* not JSON.
json(body) ==
    CASE body = "{\"success\": true, \"data\": 1}" ->
            [ok |-> TRUE, value |-> [success |-> TRUE, data |-> 1]]
      [] body = "{\"success\": false}" ->
            [ok |-> TRUE, value |-> [success |-> FALSE, data |-> 0]]
      [] OTHER ->
            [ok |-> FALSE, value |-> [success |-> FALSE, data |-> 0]]

\* requests.Response.raise_for_status(), as the blocking client calls it: it
\* raises HTTPError for a 4xx or 5xx status and for no other.
requests_raise_for_status(status) == 400 <= status /\ status < 600

\* httpx.Response.raise_for_status(), as the async client calls it: it raises
\* HTTPStatusError for every status that is not 2xx.
httpx_raise_for_status(status) == ~(200 <= status /\ status < 300)

\* The two lines that end each blocking operation:
\*     response.raise_for_status(); return response.json()
sync_finish(status, body, calls) ==
    IF requests_raise_for_status(status) THEN Raise("HTTPError", calls)
    ELSE IF json(body).ok THEN Return(json(body).value, calls)
    ELSE Raise("JSONDecodeError", calls)

\* The same two lines of each AsyncNextrows method.
async_finish(status, body, calls) ==
    IF httpx_raise_for_status(status) THEN Raise("HTTPStatusError", calls)
    ELSE IF json(body).ok THEN Return(json(body).value, calls)
    ELSE Raise("JSONDecodeError", calls)

Post(path, body) == [method |-> "POST", path |-> path, json |-> body]
Get(path)        == [method |-> "GET",  path |-> path, json |-> <<>>]

\* The extraction requests the client is driven with: every schema source, one
\* type and no prompt (neither is read by the client).
ClientRequests ==
    { r \in Requests : r.items["type"] = "url" /\ "prompt" \notin DOMAIN r.items }

RunAppRequests ==
    { [appId |-> a, inputs |-> <<[key |-> "url", value |-> "https://example.com"]>>] :
        a \in {"app-1", "app-2"} }

\* --------------------------------------------------------------- the client
\* extract() up to the point where it blocks in session.post: the requests it
\* has sent and its outcome so far (Pending while it waits for the response).
\* extract posting the request before building the payload.
extract_send_post_first(request) ==
    LET payload == build_extract_payload(request) IN
    IF payload.outcome = "raise"
    THEN [wire |-> <<Post("/v1/extract", request.items)>>, result |-> payload]
    ELSE [wire |-> <<Post("/v1/extract", payload.value.items)>>,
          result |-> [Pending EXCEPT !.calls = payload.calls]]

extract_send(request) ==
    LET payload == build_extract_payload(request) IN
    IF payload.outcome = "raise"
    THEN [wire |-> <<>>, result |-> payload]
    ELSE [wire |-> <<Post("/v1/extract", payload.value.items)>>,
          result |-> [Pending EXCEPT !.calls = payload.calls]]

\* AsyncNextrows.extract up to its await of client.post.
AsyncNextrows_extract_send(request) ==
    LET payload == build_extract_payload(request) IN
    IF payload.outcome = "raise"
    THEN [wire |-> <<>>, result |-> payload]
    ELSE [wire |-> <<Post("/v1/extract", payload.value.items)>>,
          result |-> [Pending EXCEPT !.calls = payload.calls]]

Init ==
    /\ fn = "none" /\ arg = None /\ ret = Pending
    /\ mode \in {"sync", "async"}
    /\ scope = "none" /\ scope_exc = "" /\ closes = 0 /\ ncalls = 0
    /\ pc = "idle" /\ op = "none" /\ call_request = None /\ wire = <<>>
    /\ response = NoResponse /\ result = Pending

\* A method of the client may be called when no call is in progress; the model
\* follows the client until it is closed.
CanCall(m) ==
    /\ mode = m
    /\ pc \in {"idle", "done"}
    /\ closes = 0
    /\ ncalls < MaxCalls

\* The call has sent `sent` and now waits for the response, or has ended
\* with `res` without waiting.
Begin(o, rq, sent, res) ==
    /\ op' = o
    /\ call_request' = rq
    /\ wire' = sent
    /\ result' = res
    /\ pc' = IF res.outcome = "pending" THEN "awaiting" ELSE "done"
    /\ response' = NoResponse
    /\ ncalls' = ncalls + 1
    /\ UNCHANGED <<mode, scope, scope_exc, closes>>
    /\ UNCHANGED pure_vars

\* Nextrows.extract -> api.extract.extract
extract(rq) ==
    /\ CanCall("sync")
    /\ Begin("extract", rq, extract_send(rq).wire, extract_send(rq).result)

\* Nextrows.get_credits -> api.credits.get_credits
get_credits ==
    /\ CanCall("sync")
    /\ Begin("get_credits", None, <<Get("/v1/credits")>>, Pending)

\* Nextrows.run_app_json -> api.apps.run_app_json
run_app_json(rq) ==
    /\ CanCall("sync")
    /\ Begin("run_app_json", rq, <<Post("/v1/apps/run/json", rq)>>, Pending)

\* Nextrows.run_app_table -> api.apps.run_app_table
run_app_table(rq) ==
    /\ CanCall("sync")
    /\ Begin("run_app_table", rq, <<Post("/v1/apps/run/table", rq)>>, Pending)

AsyncNextrows_extract(rq) ==
    /\ CanCall("async")
    /\ Begin("extract", rq, AsyncNextrows_extract_send(rq).wire,
             AsyncNextrows_extract_send(rq).result)

AsyncNextrows_get_credits ==
    /\ CanCall("async")
    /\ Begin("get_credits", None, <<Get("/v1/credits")>>, Pending)

AsyncNextrows_run_app_json(rq) ==
    /\ CanCall("async")
    /\ Begin("run_app_json", rq, <<Post("/v1/apps/run/json", rq)>>, Pending)

AsyncNextrows_run_app_table(rq) ==
    /\ CanCall("async")
    /\ Begin("run_app_table", rq, <<Post("/v1/apps/run/table", rq)>>, Pending)

\* session.post / session.get returns a response: the blocking call ends.
SyncResponse(status, body) ==
    /\ mode = "sync"
    /\ pc = "awaiting"
    /\ response' = [status |-> status, body |-> body]
    /\ result' = sync_finish(status, body, result.calls)
    /\ pc' = "done"
    /\ UNCHANGED <<mode, scope, scope_exc, closes, ncalls, op, call_request, wire>>
    /\ UNCHANGED pure_vars

\* The awaited client.post / client.get resumes with a response.
AsyncResponse(status, body) ==
    /\ mode = "async"
    /\ pc = "awaiting"
    /\ response' = [status |-> status, body |-> body]
    /\ result' = async_finish(status, body, result.calls)
    /\ pc' = "done"
    /\ UNCHANGED <<mode, scope, scope_exc, closes, ncalls, op, call_request, wire>>
    /\ UNCHANGED pure_vars

\* The transport itself fails (timeout, connection refused): post / get raises,
\* and nothing in the call catches it.
TransportFailure ==
    /\ pc = "awaiting"
    /\ result' = Raise("TransportError", result.calls)
    /\ pc' = "done"
    /\ UNCHANGED <<mode, scope, scope_exc, closes, ncalls, op, call_request, wire, response>>
    /\ UNCHANGED pure_vars

\* ---- scoped use: with Nextrows(...) as c / async with AsyncNextrows(...) as c
\* The exceptions that may leave the block now: none (a normal exit, ""), or
\* the error of the call that just ended, if the block does not catch it.
Leaving == {""} \cup (IF pc = "done" /\ result.outcome = "raise" THEN {result.error} ELSE {})

Nextrows_enter ==
    /\ mode = "sync"
    /\ scope = "none" /\ closes = 0 /\ pc \in {"idle", "done"}
    /\ scope' = "entered"
    /\ UNCHANGED <<mode, scope_exc, closes, ncalls, pc, op, call_request, wire, response, result>>
    /\ UNCHANGED pure_vars

AsyncNextrows_aenter ==
    /\ mode = "async"
    /\ scope = "none" /\ closes = 0 /\ pc \in {"idle", "done"}
    /\ scope' = "entered"
    /\ UNCHANGED <<mode, scope_exc, closes, ncalls, pc, op, call_request, wire, response, result>>
    /\ UNCHANGED pure_vars

\* Nextrows.close: self.session.close()
Nextrows_close ==
    /\ mode = "sync"
    /\ closes = 0 /\ pc \in {"idle", "done"}
    /\ closes' = closes + 1
    /\ UNCHANGED <<mode, scope, scope_exc, ncalls, pc, op, call_request, wire, response, result>>
    /\ UNCHANGED pure_vars

\* AsyncNextrows.aclose: await self.client.aclose()
AsyncNextrows_aclose ==
    /\ mode = "async"
    /\ closes = 0 /\ pc \in {"idle", "done"}
    /\ closes' = closes + 1
    /\ UNCHANGED <<mode, scope, scope_exc, ncalls, pc, op, call_request, wire, response, result>>
    /\ UNCHANGED pure_vars

\* __exit__ closing the session only on a normal exit.
Nextrows_exit_normal_only(exc) ==
    /\ mode = "sync"
    /\ scope = "entered" /\ pc \in {"idle", "done"}
    /\ exc \in Leaving
    /\ scope' = "exited"
    /\ scope_exc' = exc
    /\ closes' = IF exc = "" THEN closes + 1 ELSE closes
    /\ UNCHANGED <<mode, ncalls, pc, op, call_request, wire, response, result>>
    /\ UNCHANGED pure_vars

\* Nextrows.__exit__(exc_type, exc, tb): self.close(); returns None, so the
\* exception, if any, goes on to the caller.
Nextrows_exit(exc) ==
    /\ mode = "sync"
    /\ scope = "entered" /\ pc \in {"idle", "done"}
    /\ exc \in Leaving
    /\ scope' = "exited"
    /\ scope_exc' = exc
    /\ closes' = closes + 1
    /\ UNCHANGED <<mode, ncalls, pc, op, call_request, wire, response, result>>
    /\ UNCHANGED pure_vars

\* AsyncNextrows.__aexit__(exc_type, exc, tb): await self.aclose()
AsyncNextrows_aexit(exc) ==
    /\ mode = "async"
    /\ scope = "entered" /\ pc \in {"idle", "done"}
    /\ exc \in Leaving
    /\ scope' = "exited"
    /\ scope_exc' = exc
    /\ closes' = closes + 1
    /\ UNCHANGED <<mode, ncalls, pc, op, call_request, wire, response, result>>
    /\ UNCHANGED pure_vars

Errors == {"", "ValueError", "ExportError", "HTTPError", "HTTPStatusError",
           "JSONDecodeError", "TransportError"}

Next ==
    \/ \E rq \in ClientRequests : extract(rq)
    \/ get_credits
    \/ \E rq \in RunAppRequests : run_app_json(rq)
    \/ \E rq \in RunAppRequests : run_app_table(rq)
    \/ \E rq \in ClientRequests : AsyncNextrows_extract(rq)
    \/ AsyncNextrows_get_credits
    \/ \E rq \in RunAppRequests : AsyncNextrows_run_app_json(rq)
    \/ \E rq \in RunAppRequests : AsyncNextrows_run_app_table(rq)
    \/ \E status \in Statuses, body \in Bodies : SyncResponse(status, body)
    \/ \E status \in Statuses, body \in Bodies : AsyncResponse(status, body)
    \/ TransportFailure
    \/ Nextrows_enter
    \/ AsyncNextrows_aenter
    \/ Nextrows_close
    \/ AsyncNextrows_aclose
    \/ \E exc \in Errors : Nextrows_exit(exc)
    \/ \E exc \in Errors : AsyncNextrows_aexit(exc)

Spec == Init /\ [][Next]_vars

\* ----------------------------------------------------- properties under Spec
\* A schema source the conversion rejects.
InvalidSource(s) ==
    /\ ~isinstance_dict(s)
    /\ s.model_json_schema.k \in {"absent", "noncallable"}
    /\ s.schema.k \in {"absent", "noncallable"}

\* C8: an extract call, blocking or async, whose request carries an invalid
\* (non-None) schema source ends at once with ValueError and has sent no
\* HTTP request, then or later in the call.
C8_InvalidSchemaNeverSent ==
    (op = "extract" /\ "schema" \in DOMAIN call_request.items
                    /\ call_request.items["schema"].t # "none"
                    /\ InvalidSource(call_request.items["schema"]))
        => /\ pc = "done"
           /\ wire = <<>>
           /\ response = NoResponse
           /\ result = Raise("ValueError", <<>>)

C8_Witness ==
    /\ mode = "async"
    /\ op = "extract"
    /\ pc = "done"
    /\ "schema" \in DOMAIN call_request.items
    /\ call_request.items["schema"].schema.k = "noncallable"
    /\ result.error = "ValueError"
    /\ wire = <<>>

\* C9: once the with / async with block is left, normally or by an exception,
\* close has been called on the client's session.
C9_ScopeExitCloses == scope = "exited" => closes >= 1

C9_Witness ==
    /\ mode = "sync"
    /\ scope = "exited"
    /\ scope_exc = "ValueError"
    /\ closes = 1

\* C10 as stated: a call sends at most one HTTP request; once a response has
\* arrived, a non-2xx status ends the call in an error with no value
\* returned, and a 2xx status (with a JSON body) returns the decoded body.
C10_StatusDecidesOutcome ==
    /\ Len(wire) <= 1
    /\ (pc = "done" /\ response # NoResponse)
          => IF 200 <= response.status /\ response.status < 300
             THEN json(response.body).ok
                     => /\ result.outcome = "return"
                        /\ result.value = json(response.body).value
             ELSE result.outcome = "raise"

\* ------------------------------------------------- properties under SpecPure
Converted == fn = "_convert_schema" /\ ret.outcome # "pending"
Built     == fn = "build_extract_payload" /\ ret.outcome # "pending"

\* C1: a mapping is passed through as the same object, no export capability
\* is invoked on it (even when it has one), and the payload built from a
\* request whose schema is a mapping carries that mapping.
C1_MappingPassThrough ==
    /\ (Converted /\ isinstance_dict(arg)) => ret = Return(arg, <<>>)
    /\ (Built /\ "schema" \in DOMAIN arg.items /\ isinstance_dict(arg.items["schema"]))
          => /\ ret.outcome = "return"
             /\ ret.calls = <<>>
             /\ ret.value.items["schema"] = arg.items["schema"]

C1_Witness ==
    /\ Converted
    /\ isinstance_dict(arg)
    /\ arg.model_json_schema.k = "returns"
    /\ ret.outcome = "return"

\* C2: a non-mapping whose model_json_schema is callable and returns j is
\* converted to j by invoking model_json_schema alone, whatever its schema
\* attribute is.
C2_PrimaryWins ==
    (Converted /\ ~isinstance_dict(arg) /\ arg.model_json_schema.k = "returns")
        => ret = Return(Lift(arg.model_json_schema.ret), <<"model_json_schema">>)

C2_Witness ==
    /\ Converted
    /\ ~isinstance_dict(arg)
    /\ arg.model_json_schema.k = "returns"
    /\ arg.schema.k = "returns"
    /\ arg.schema.ret # arg.model_json_schema.ret
    /\ ret.value = Lift(arg.model_json_schema.ret)

\* C3: a non-mapping without a callable model_json_schema whose schema is
\* callable and returns j is converted to j.
C3_LegacyFallback ==
    (Converted /\ ~isinstance_dict(arg) /\ ~callable(arg.model_json_schema)
               /\ arg.schema.k = "returns")
        => ret = Return(Lift(arg.schema.ret), <<"schema">>)

C3_Witness ==
    /\ Converted
    /\ arg.t = "obj"
    /\ arg.model_json_schema.k = "noncallable"
    /\ arg.schema.k = "returns"
    /\ ret.outcome = "return"
    /\ ret.value.t = "dict"

\* C4: a non-mapping with neither attribute callable fails with ValueError,
\* returns nothing and invokes nothing.
C4_InvalidSchemaSource ==
    (Converted /\ ~isinstance_dict(arg) /\ ~callable(arg.model_json_schema)
               /\ ~callable(arg.schema))
        => ret = Raise("ValueError", <<>>)

C4_Witness ==
    /\ Converted
    /\ arg.t = "obj"
    /\ arg.model_json_schema.k = "noncallable"
    /\ arg.schema.k = "noncallable"
    /\ ret.outcome = "raise"

\* C5: a request without a schema key, or with schema None, yields a payload
\* with the request's items exactly, and no capability is invoked.
C5_NoSchemaCopy ==
    (Built /\ ("schema" \notin DOMAIN arg.items \/ arg.items["schema"].t = "none"))
        => /\ ret.outcome = "return"
           /\ ret.value.items = arg.items
           /\ DOMAIN ret.value.items = DOMAIN arg.items
           /\ ret.calls = <<>>

C5_Witness ==
    /\ Built
    /\ "schema" \in DOMAIN arg.items
    /\ arg.items["schema"].t = "none"
    /\ ret.outcome = "return"

\* A schema source the conversion accepts: a mapping, or a non-mapping whose
\* first callable capability returns.
ValidSource(s) ==
    \/ isinstance_dict(s)
    \/ s.model_json_schema.k = "returns"
    \/ ~callable(s.model_json_schema) /\ s.schema.k = "returns"

\* What the conversion of a valid source is specified to give (spec 4.1).
Normalized(s) ==
    IF isinstance_dict(s) THEN s
    ELSE IF s.model_json_schema.k = "returns" THEN Lift(s.model_json_schema.ret)
    ELSE Lift(s.schema.ret)

\* C6: a request with a valid, non-None schema yields a new dict (another
\* object than the request) with the request's keys, every other key's value
\* kept and schema replaced by its conversion.
C6_SchemaReplacedOthersKept ==
    (Built /\ "schema" \in DOMAIN arg.items /\ arg.items["schema"].t # "none"
           /\ ValidSource(arg.items["schema"]))
        => /\ ret.outcome = "return"
           /\ ret.value.ref # arg.ref
           /\ DOMAIN ret.value.items = DOMAIN arg.items
           /\ \A k \in DOMAIN arg.items \ {"schema"} : ret.value.items[k] = arg.items[k]
           /\ ret.value.items["schema"] = Normalized(arg.items["schema"])

C6_Witness ==
    /\ Built
    /\ "prompt" \in DOMAIN arg.items
    /\ "schema" \in DOMAIN arg.items
    /\ arg.items["schema"].t = "obj"
    /\ ret.outcome = "return"
    /\ ret.value.items["schema"] # arg.items["schema"]

\* C7 as stated: whenever the returned payload has a schema key, its value is
\* a mapping.
C7_PayloadSchemaIsMapping ==
    (Built /\ ret.outcome = "return" /\ "schema" \in DOMAIN ret.value.items)
        => ret.value.items["schema"].t = "dict"

\* C7 amended: the payload's schema value is a mapping exactly when the
\* request's schema is a mapping or the capability invoked on it returned
\* one; it is None when the request's schema is None, and otherwise the
\* return value of the first callable capability, whatever that is.
C7_PayloadSchemaAsSupplied ==
    (Built /\ ret.outcome = "return" /\ "schema" \in DOMAIN ret.value.items)
        => LET s == arg.items["schema"]
               p == ret.value.items["schema"]
           IN  /\ s.t = "none" => p = s
               /\ s.t # "none" => p = Normalized(s)
               /\ p.t = "dict" <=> (s.t # "none" /\ Normalized(s).t = "dict")

C7_Witness ==
    /\ Built
    /\ ret.outcome = "return"
    /\ "schema" \in DOMAIN arg.items
    /\ arg.items["schema"].t = "obj"
    /\ ret.value.items["schema"].t = "str"

====
